---- MODULE Spec2Model ----
(***************************************************************************)
(* State-machine model of the SoC power-hint daemon (SocDaemon and its     *)
(* monitors).  Threads: the debounce worker (debounceThreadFunc), the WLT  *)
(* monitor thread, the SysLoadMonitor sampler thread and the GpuRc6Monitor *)
(* threads.  Every action is one atomic step of one thread: an access to   *)
(* shared state together with the thread-local work around it, or one      *)
(* critical section of debounceMutex_.  In the entry-expiry body and in    *)
(* the SysLoadMonitor thread the load sample and the exchange of           *)
(* CCGlobalState_ after it are one step, and so are the sink call, the     *)
(* cache update and the sampler control inside sendHintIfAllowed; the      *)
(* compare inside sendHintIfAllowed is a step of its own, because no lock  *)
(* is held around it.  The actions themselves say nothing                  *)
(* about time: Spec lets a timed wait end at any moment, SpecTimed adds    *)
(* clocks (in seconds, relative to "now") and lets the entry wait time out *)
(* only once its deadline has passed.  SpecGfx adds the threads that run   *)
(* GpuRc6Monitor::monitorLoop.  SpecSwlt and SpecHfi start the daemon with *)
(* socHint_ "swlt" and "hfi" (the WLT or HFI monitor thread and the        *)
(* SysLoadMonitor thread); SpecSend is Spec started with sendHint_ true or *)
(* false.  SpecInit starts the daemon after a failed init() of the WLT or  *)
(* the GPU monitor, SpecSink records whether the hint sink accepted a      *)
(* call, SpecWake runs SysLoadMonitor::monitorLoop step by step, SpecIo    *)
(* runs WltMonitor::monitorLoop with its file operations, and SpecEma is   *)
(* the arithmetic of the CPU-load EMA over a sequence of samples.  SpecSnap *)
(* is Spec with a record of whether latestSysCpuLoadCC_ was written in the *)
(* current CoreContainment episode, and SpecLive schedules the debounce    *)
(* worker fairly, for the properties of progress.                          *)
(***************************************************************************)
EXTENDS Integers, Sequences, FiniteSets, TLC

VARIABLES
    socHint,                 \* SocDaemon::socHint_
    sendHint,                \* SocDaemon::sendHint_
    sendGfxHint,             \* SocDaemon::sendGfxHint_
    wltMonitorOk,            \* start(): the WltMonitor was created, init() succeeded, it is in monitors_
    gpuRc6MonitorPtr,        \* SocDaemon::gpuRc6MonitorPtr_ is non-null (GpuRc6Monitor::init() succeeded)
    CCGlobalState,           \* SocDaemon::CCGlobalState_ : "Open" | "CoreContainment"
    ccEntryDebounceActive,   \* SocDaemon::ccEntryDebounceActive_
    ccEntryDebounceCancelled,\* SocDaemon::ccEntryDebounceCancelled_
    ccExitDebounceActive,    \* SocDaemon::ccExitDebounceActive_
    ccExitDebounceCancelled, \* SocDaemon::ccExitDebounceCancelled_
    debounceThreadStarted,   \* SocDaemon::debounceThreadStarted_
    ccExitDebounceMs,        \* SocDaemon::ccExitDebounceMs_ (in seconds)
    latestSysCpuLoadCC,      \* SocDaemon::latestSysCpuLoadCC_
    efficientMode,           \* SocDaemon::efficientMode_ (0/1)
    gfxMode,                 \* SocDaemon::gfxMode_ (0/1); starts at 0 like efficientMode_
    gpuMonitorThreadRunning, \* SocDaemon::gpuMonitorThreadRunning_
    gpuPaused,               \* GpuRc6Monitor::paused_
    samplerPaused,           \* SysLoadMonitor::samplerPaused_
    cpuEma,                  \* g_cpuEmaValue (SysLoadMonitor.cpp), -1 = not initialised
    dpc,                     \* position of the debounce worker
    dSlope,                  \* debounce worker local: slope
    wpc,                     \* position of the WLT monitor thread inside handleChangeAlert
    wltPrev,                 \* WltMonitor::monitorLoop previous_value (-1 = empty string)
    wNew,                    \* handleChangeAlert argument newValue
    efficient_power,         \* HfiMonitor::efficient_power
    gpc,                     \* position of each thread running GpuRc6Monitor::monitorLoop
    gVal,                    \* gfxMode argument of each GPU thread's callback
    hpc,                     \* position of each caller inside sendHintIfAllowed
    hVal,                    \* sendHintIfAllowed argument value, per caller
    effSent,                 \* sink: the last (at most two) EFFICIENT_POWER values sent
    gfxSent,                 \* sink: the last (at most two) GFX_MODE values sent
    entryRuns,               \* entry-expiry bodies started since the last entry arm
    entryRemain,             \* entry wait: deadline (line 112) - now, in seconds
    entryArmRemain,          \* ccEntryDebounceStartTime_ + kCCEntryDebounceMs - now
    wltEvents,               \* SpecGfx: WLT changes delivered so far
    sinkResult,              \* SpecSink: what the last hintManager.sendHint("EFFICIENT_POWER") returned
    spc,                     \* SpecWake: position of the SysLoadMonitor thread in monitorLoop
    wAlive,                  \* SpecIo: the WLT monitor thread is still inside monitorLoop
    previous_value,          \* SpecIo: WltMonitor::monitorLoop previous_value, as a string
    emaPrev,                 \* SpecEma: g_cpuEmaValuePrev
    emaLastTs,               \* SpecEma: g_cpuEmaLastTs, in seconds
    emaNow,                  \* SpecEma: steady_clock::now(), in seconds
    currentSample,           \* SpecEma: SysLoadMonitor::currentSample_ (totalTime, idleTime)
    rawUtil,                 \* SpecEma: rawUtil of the latest getSysCpuLoad, -1 = undefined
    snapshotFresh            \* SpecSnap: line 292 has run since the state last became CoreContainment

cfgVars   == <<socHint, sendHint, sendGfxHint, wltMonitorOk, gpuRc6MonitorPtr>>
timerVars == <<ccEntryDebounceActive, ccEntryDebounceCancelled, ccExitDebounceActive,
               ccExitDebounceCancelled, debounceThreadStarted, ccExitDebounceMs>>
ghostVars == <<entryRuns>>
dVars     == <<dpc, dSlope>>
wVars     == <<wpc, wltPrev, wNew>>
hfiVars   == <<efficient_power>>
gpuVars   == <<gpuMonitorThreadRunning, gpuPaused>>
gThrVars  == <<gpc, gVal, gfxMode, gfxSent>>
hintVars  == <<hpc, hVal, efficientMode, effSent, samplerPaused>>
clockVars == <<entryRemain, entryArmRemain>>
sinkVars  == <<sinkResult>>
wakeVars  == <<spc>>
ioVars    == <<wAlive, previous_value>>
emaVars   == <<emaPrev, emaLastTs, emaNow, currentSample, rawUtil>>
snapVars  == <<snapshotFresh>>
moreVars  == <<sinkVars, wakeVars, ioVars, emaVars, snapVars>>
layerVars == <<clockVars, wltEvents, moreVars>>

vars == <<cfgVars, hfiVars, CCGlobalState, timerVars, ghostVars, dVars, wVars, gpuVars, gThrVars,
          hintVars, latestSysCpuLoadCC, cpuEma, layerVars>>

----------------------------------------------------------------------------
(* Program constants *)

\* kCCEntryDebounceMs{10000}, in seconds
kCCEntryDebounceS == 10
\* startCCExitDebounceTimer's default timeout and ccExitDebounceMs_{1000}, in seconds
kCCExitDefaultS == 1
\* startCCExitDebounceTimer(std::chrono::milliseconds(5000)), in seconds
kCCExitRearmS == 5
kSysloadSlopeThreshold == 5
\* if (currentSysCpuLoad < 25.0)
kEntryLoadThreshold == 25
kSysloadHighThreshold == 25
\* line 392: if (newValue == 255)
kHfiEfficient == 255
\* the readings -1.0 of getSysCpuLoad / getLatestSysCpuLoad, and the empty previous_value
None == 0 - 1
\* a sysfs content that strtol does not accept as a decimal integer
Unparsable == 0 - 2

(* Bounds *)

\* WLT sysfs integers range over 0..MaxWltInt
MaxWltInt == 3

\* SpecGfx delivers at most MaxWltEvents WLT changes
MaxWltEvents == 3

\* HFI eff values other than 255 range over 0..MaxHfiLow
MaxHfiLow == 2

\* seconds that pass in one Tick of SpecTimed
TickS == 5

\* the counters of the "cpu" line of /proc/stat range over 0..MaxJiffies
MaxJiffies == 3

\* SpecEma runs for MaxNow seconds
MaxNow == 3

\* alpha of the EMA is kept in thousandths
AlphaScale == 1000

\* EMA values a defined /proc/stat sample can produce (percent)
Loads == {10, 30}

WltInts == 0..MaxWltInt

\* WLT sysfs integers with bit 4 clear or set, for swlt mode
SwltInts == {v + 16 * b : v \in WltInts, b \in {0, 1}}

\* eff values of an HFI capability message: 0..MaxHfiLow and 255
HfiInts == (0..MaxHfiLow) \cup {kHfiEfficient}
\* what readValue can leave in current_value: "", a decimal integer, other text
WltStrings == WltInts \cup {None, Unparsable}
GpuThreads == {1, 2}
Callers == {"D", "S", "W", "H"}

----------------------------------------------------------------------------
(* Helpers *)

\* static_cast<WltType>(v & 0x3): Idle = 0, Btl = 1, Sustain = 2, Bursty = 3
WltType(v) == v % 4

IsIdleBtl(t) == t \in {0, 1}

IsSustainBursty(t) == t \in {2, 3}

\* line 383: newValue & (1 << 4), as 0 or 1
Bit4(v) == (v \div 16) % 2

\* lines 392-396: the value the HfiMonitor branch passes to sendHintIfAllowed
HfiHint(v) == IF v = kHfiEfficient THEN 1 ELSE 0

\* WltMonitor.cpp lines 175, 180: strtol of a sysfs string; 0 when there is
\* no digit to convert
StrToL(s) == IF s \in {None, Unparsable} THEN 0 ELSE s

\* strtol(previous_value) in WltMonitor::monitorLoop; "" parses to 0
PrevInt(p) == IF p = None THEN 0 ELSE p

\* SysLoadMonitor::getSysCpuLoad: the EMA after one /proc/stat sample.  An
\* undefined raw sample leaves the EMA as it is (-1 when never initialised),
\* a defined one moves it to a value in [0,100].
SampleResults(ema) == {ema} \cup Loads

\* faulty variant of LoadIsLow: the comparison inverted
LoadIsLowInverted(l) == l >= kEntryLoadThreshold

\* line 131: currentSysCpuLoad < 25.0
LoadIsLow(l) == l < kEntryLoadThreshold

\* line 171: slope > kSysloadSlopeThreshold
SlopeIsHigh(s) == s > kSysloadSlopeThreshold

\* SysLoadMonitor.cpp line 29: getSysCpuLoad() > kSysloadHighThreshold
LoadIsSpike(l) == l > kSysloadHighThreshold

\* the sink keeps the last two values it was handed
Record(log, v) == IF Len(log) < 2 THEN Append(log, v) ELSE <<log[2], v>>

\* faulty variant of LoopTop: the loop test looks at the entry timer only
LoopTopEntryOnly(e, x) == IF e THEN "entry_wait" ELSE "wait"

\* debounceThreadFunc lines 109-110: the loop test, holding the lock
LoopTop(e, x) == IF e THEN "entry_wait" ELSE IF x THEN "exit_wait" ELSE "wait"

\* debounceThreadFunc line 148: after the entry part, the exit timer's turn
ExitPhase(e, x) == IF x THEN "exit_wait" ELSE LoopTop(e, x)

----------------------------------------------------------------------------
(* Initial state: SocDaemon constructed, start() has wired the monitors and *)
(* created their threads                                                    *)

InitCommon ==
    /\ CCGlobalState = "Open"
    /\ ccEntryDebounceActive = FALSE
    /\ ccEntryDebounceCancelled = FALSE
    /\ ccExitDebounceActive = FALSE
    /\ ccExitDebounceCancelled = FALSE
    /\ debounceThreadStarted = FALSE
    /\ ccExitDebounceMs = kCCExitDefaultS
    /\ latestSysCpuLoadCC = 0
    /\ efficientMode = 0
    /\ gfxMode = 0
    /\ gpuMonitorThreadRunning = FALSE
    /\ gpuPaused = TRUE
    /\ samplerPaused = TRUE
    /\ cpuEma = None
    /\ dpc = "wait"
    /\ dSlope = 0
    /\ wpc = "idle"
    /\ wltPrev = None
    /\ wNew = 0
    /\ efficient_power = 0
    /\ gpc = [g \in GpuThreads |-> IF g = 1 /\ gpuRc6MonitorPtr THEN "poll" ELSE "off"]
    /\ gVal = [g \in GpuThreads |-> 0]
    /\ hpc = [c \in Callers |-> "idle"]
    /\ hVal = [c \in Callers |-> 0]
    /\ effSent = <<>>
    /\ gfxSent = <<>>
    /\ entryRuns = 0
    /\ entryRemain = 0
    /\ entryArmRemain = 0
    /\ wltEvents = 0
    /\ sinkResult = "none"
    /\ spc = "check"
    /\ wAlive = wltMonitorOk
    /\ previous_value = None
    /\ emaPrev = None
    /\ emaLastTs = 0
    /\ emaNow = 0
    /\ currentSample = [totalTime |-> 0, idleTime |-> 0]
    /\ rawUtil = None
    /\ snapshotFresh = FALSE

\* --socHint wlt --sendHint true
Init ==
    /\ socHint = "wlt"
    /\ sendHint = TRUE
    /\ sendGfxHint = TRUE
    /\ wltMonitorOk = TRUE
    /\ gpuRc6MonitorPtr = TRUE
    /\ InitCommon

\* --socHint swlt --sendHint true
InitSwlt ==
    /\ socHint = "swlt"
    /\ sendHint = TRUE
    /\ sendGfxHint = TRUE
    /\ wltMonitorOk = TRUE
    /\ gpuRc6MonitorPtr = TRUE
    /\ InitCommon

\* --socHint hfi --sendHint true
InitHfi ==
    /\ socHint = "hfi"
    /\ sendHint = TRUE
    /\ sendGfxHint = TRUE
    /\ wltMonitorOk = FALSE
    /\ gpuRc6MonitorPtr = TRUE
    /\ InitCommon

\* --socHint wlt --sendHint true, and WltMonitor::init() or
\* GpuRc6Monitor::init() (or both) returned -1 in start()
InitFail ==
    /\ socHint = "wlt"
    /\ sendHint = TRUE
    /\ sendGfxHint = TRUE
    /\ wltMonitorOk \in BOOLEAN
    /\ gpuRc6MonitorPtr \in BOOLEAN
    /\ ~(wltMonitorOk /\ gpuRc6MonitorPtr)
    /\ InitCommon

\* --socHint wlt, --sendHint true or false
InitSend ==
    /\ socHint = "wlt"
    /\ sendHint \in BOOLEAN
    /\ sendGfxHint = TRUE
    /\ wltMonitorOk = TRUE
    /\ gpuRc6MonitorPtr = TRUE
    /\ InitCommon

----------------------------------------------------------------------------
(* SocDaemon::sendHintIfAllowed, run by caller c *)

\* the call: the caller enters sendHintIfAllowed(v)
CallHint(c, v) ==
    /\ hpc' = [hpc EXCEPT ![c] = "compare"]
    /\ hVal' = [hVal EXCEPT ![c] = v]

NoHint == UNCHANGED <<hpc, hVal>>

\* line 440: if (value != efficientMode_)
HintCompare(c) ==
    /\ hpc[c] = "compare"
    /\ hpc' = [hpc EXCEPT ![c] = IF hVal[c] # efficientMode THEN "send" ELSE "idle"]
    /\ hVal' = IF hVal[c] # efficientMode THEN hVal ELSE [hVal EXCEPT ![c] = 0]
    /\ UNCHANGED <<efficientMode, effSent, samplerPaused>>
    /\ UNCHANGED <<cfgVars, hfiVars, CCGlobalState, timerVars, ghostVars, dVars, wVars,
                   gpuVars, gThrVars, latestSysCpuLoadCC, cpuEma>>

\* faulty variant of HintSend: with sendHint_ false the whole call is a no-op
HintSendOnlyIfEnabled(c) ==
    /\ hpc[c] = "send"
    /\ effSent' = IF sendHint THEN Record(effSent, hVal[c]) ELSE effSent
    /\ efficientMode' = IF sendHint THEN hVal[c] ELSE efficientMode
    /\ samplerPaused' = IF sendHint THEN (efficientMode' = 0) ELSE samplerPaused
    /\ hpc' = [hpc EXCEPT ![c] = "idle"]
    /\ hVal' = [hVal EXCEPT ![c] = 0]
    /\ UNCHANGED <<cfgVars, hfiVars, CCGlobalState, timerVars, ghostVars, dVars, wVars,
                   gpuVars, gThrVars, latestSysCpuLoadCC, cpuEma>>

\* faulty variant of HintSend: pause() when efficientMode_ is now set,
\* restart() otherwise
HintSendPausesOnOne(c) ==
    /\ hpc[c] = "send"
    /\ effSent' = IF sendHint THEN Record(effSent, hVal[c]) ELSE effSent
    /\ efficientMode' = hVal[c]
    /\ samplerPaused' = (efficientMode' = 1)
    /\ hpc' = [hpc EXCEPT ![c] = "idle"]
    /\ hVal' = [hVal EXCEPT ![c] = 0]
    /\ UNCHANGED <<cfgVars, hfiVars, CCGlobalState, timerVars, ghostVars, dVars, wVars,
                   gpuVars, gThrVars, latestSysCpuLoadCC, cpuEma>>

\* lines 441-453: the sink call (when sendHint_), the cache update, and
\* SysLoadMonitor::restart() when efficientMode_ is now set, pause() otherwise
HintSend(c) ==
    /\ hpc[c] = "send"
    /\ effSent' = IF sendHint THEN Record(effSent, hVal[c]) ELSE effSent
    /\ efficientMode' = hVal[c]
    /\ samplerPaused' = (efficientMode' = 0)
    /\ hpc' = [hpc EXCEPT ![c] = "idle"]
    /\ hVal' = [hVal EXCEPT ![c] = 0]
    /\ UNCHANGED <<cfgVars, hfiVars, CCGlobalState, timerVars, ghostVars, dVars, wVars,
                   gpuVars, gThrVars, latestSysCpuLoadCC, cpuEma>>

----------------------------------------------------------------------------
(* Debounce control helpers; each is one critical section of debounceMutex_ *)

startCCEntryDebounceTimer ==
    /\ ccEntryDebounceActive' = TRUE
    /\ ccEntryDebounceCancelled' = FALSE
    /\ debounceThreadStarted' = TRUE
    /\ entryRuns' = 0
    /\ UNCHANGED <<ccExitDebounceActive, ccExitDebounceCancelled, ccExitDebounceMs>>

stopCCEntryDebounceTimer ==
    /\ ccEntryDebounceActive' = FALSE
    /\ ccEntryDebounceCancelled' = TRUE
    /\ UNCHANGED <<debounceThreadStarted, entryRuns>>
    /\ UNCHANGED <<ccExitDebounceActive, ccExitDebounceCancelled, ccExitDebounceMs>>

\* faulty variant of startCCExitDebounceTimer: the timeout argument is dropped
startCCExitDebounceTimerDefault(timeout) ==
    /\ ccExitDebounceActive' = TRUE
    /\ ccExitDebounceCancelled' = FALSE
    /\ debounceThreadStarted' = TRUE
    /\ ccExitDebounceMs' = kCCExitDefaultS
    /\ UNCHANGED <<ccEntryDebounceActive, ccEntryDebounceCancelled, entryRuns>>

startCCExitDebounceTimer(timeout) ==
    /\ ccExitDebounceActive' = TRUE
    /\ ccExitDebounceCancelled' = FALSE
    /\ debounceThreadStarted' = TRUE
    /\ ccExitDebounceMs' = timeout
    /\ UNCHANGED <<ccEntryDebounceActive, ccEntryDebounceCancelled, entryRuns>>

stopCCExitDebounceTimer ==
    /\ ccExitDebounceActive' = FALSE
    /\ ccExitDebounceCancelled' = TRUE
    /\ UNCHANGED <<debounceThreadStarted, ccExitDebounceMs>>
    /\ UNCHANGED <<ccEntryDebounceActive, ccEntryDebounceCancelled, entryRuns>>

NoTimerCall == UNCHANGED <<timerVars, ghostVars>>

----------------------------------------------------------------------------
(* SocDaemon::debounceThreadFunc *)

\* lines 101-110: the outer wait returns, the started marker is reset and the
\* worker starts waiting on whichever timer is active
DebounceWake ==
    /\ dpc = "wait"
    /\ ccEntryDebounceActive \/ ccExitDebounceActive \/ debounceThreadStarted
    /\ debounceThreadStarted' = FALSE
    /\ dpc' = LoopTop(ccEntryDebounceActive, ccExitDebounceActive)
    /\ UNCHANGED <<ccEntryDebounceActive, ccEntryDebounceCancelled, ccExitDebounceActive,
                   ccExitDebounceCancelled, ccExitDebounceMs, ghostVars, dSlope>>
    /\ UNCHANGED <<cfgVars, hfiVars, CCGlobalState, wVars, gpuVars, gThrVars, hintVars,
                   latestSysCpuLoadCC, cpuEma>>

\* faulty variant of EntryWaitDone: line 122 (the reset of the active flag) is missing
EntryWaitDoneKeepsActive ==
    /\ dpc = "entry_wait"
    /\ IF ~ccEntryDebounceCancelled
         THEN /\ dpc' = "entry_body"
              /\ entryRuns' = IF entryRuns < 2 THEN entryRuns + 1 ELSE entryRuns
              /\ UNCHANGED <<ccEntryDebounceActive, ccEntryDebounceCancelled>>
         ELSE /\ ccEntryDebounceCancelled' = FALSE
              /\ ccEntryDebounceActive' = FALSE
              /\ dpc' = ExitPhase(FALSE, ccExitDebounceActive)
              /\ UNCHANGED entryRuns
    /\ UNCHANGED <<ccExitDebounceActive, ccExitDebounceCancelled, debounceThreadStarted,
                   ccExitDebounceMs, dSlope>>
    /\ UNCHANGED <<cfgVars, hfiVars, CCGlobalState, wVars, gpuVars, gThrVars, hintVars,
                   latestSysCpuLoadCC, cpuEma>>

\* faulty variant of EntryWaitDone: the cancelled flag is not consulted
EntryWaitDoneIgnoresCancel ==
    /\ dpc = "entry_wait"
    /\ ccEntryDebounceActive' = FALSE
    /\ ccEntryDebounceCancelled' = FALSE
    /\ dpc' = "entry_body"
    /\ entryRuns' = IF entryRuns < 2 THEN entryRuns + 1 ELSE entryRuns
    /\ UNCHANGED <<ccExitDebounceActive, ccExitDebounceCancelled, debounceThreadStarted,
                   ccExitDebounceMs, dSlope>>
    /\ UNCHANGED <<cfgVars, hfiVars, CCGlobalState, wVars, gpuVars, gThrVars, hintVars,
                   latestSysCpuLoadCC, cpuEma>>

\* lines 115-124, 144: the entry wait ends, by timeout or because the active
\* flag was cleared; the flag is reset and the cancelled flag decides
EntryWaitDone ==
    /\ dpc = "entry_wait"
    /\ ccEntryDebounceActive' = FALSE
    /\ IF ~ccEntryDebounceCancelled
         THEN /\ dpc' = "entry_body"
              /\ entryRuns' = IF entryRuns < 2 THEN entryRuns + 1 ELSE entryRuns
              /\ UNCHANGED ccEntryDebounceCancelled
         ELSE /\ ccEntryDebounceCancelled' = FALSE
              /\ dpc' = ExitPhase(FALSE, ccExitDebounceActive)
              /\ UNCHANGED entryRuns
    /\ UNCHANGED <<ccExitDebounceActive, ccExitDebounceCancelled, debounceThreadStarted,
                   ccExitDebounceMs, dSlope>>
    /\ UNCHANGED <<cfgVars, hfiVars, CCGlobalState, wVars, gpuVars, gThrVars, hintVars,
                   latestSysCpuLoadCC, cpuEma>>

\* lines 128-140: sample the load; when it is low, exchange(CoreContainment)
\* and call sendHintIfAllowed(1) if the state was not CoreContainment
EntryBody ==
    /\ dpc = "entry_body"
    /\ \E l \in SampleResults(cpuEma) :
          /\ cpuEma' = l
          /\ IF LoadIsLow(l)
               THEN /\ CCGlobalState' = "CoreContainment"
                    /\ IF CCGlobalState # "CoreContainment"
                         THEN CallHint("D", 1)
                         ELSE NoHint
               ELSE /\ UNCHANGED CCGlobalState
                    /\ NoHint
    /\ dpc' = "entry_relock"
    /\ UNCHANGED <<dSlope, timerVars, ghostVars>>
    /\ UNCHANGED <<cfgVars, hfiVars, wVars, gpuVars, gThrVars, efficientMode, effSent, samplerPaused,
                   latestSysCpuLoadCC>>

\* lines 142-148: lock.lock() after the body, then the exit timer's turn
EntryRelock ==
    /\ dpc = "entry_relock"
    /\ hpc["D"] = "idle"
    /\ dpc' = ExitPhase(ccEntryDebounceActive, ccExitDebounceActive)
    /\ UNCHANGED <<timerVars, ghostVars, dSlope>>
    /\ UNCHANGED <<cfgVars, hfiVars, CCGlobalState, wVars, gpuVars, gThrVars, hintVars,
                   latestSysCpuLoadCC, cpuEma>>

\* lines 155-163, 188: the exit wait ends
ExitWaitDone ==
    /\ dpc = "exit_wait"
    /\ ccExitDebounceActive' = FALSE
    /\ IF ~ccExitDebounceCancelled
         THEN /\ dpc' = "exit_body"
              /\ UNCHANGED ccExitDebounceCancelled
         ELSE /\ ccExitDebounceCancelled' = FALSE
              /\ dpc' = LoopTop(ccEntryDebounceActive, FALSE)
    /\ UNCHANGED <<ccEntryDebounceActive, ccEntryDebounceCancelled, debounceThreadStarted,
                   ccExitDebounceMs, ghostVars, dSlope>>
    /\ UNCHANGED <<cfgVars, hfiVars, CCGlobalState, wVars, gpuVars, gThrVars, hintVars,
                   latestSysCpuLoadCC, cpuEma>>

\* line 165: if (CCGlobalState_.load() == CoreContainment)
ExitCheckState ==
    /\ dpc = "exit_body"
    /\ dpc' = IF CCGlobalState = "CoreContainment" THEN "exit_sample" ELSE "exit_relock"
    /\ UNCHANGED <<dSlope, timerVars, ghostVars>>
    /\ UNCHANGED <<cfgVars, hfiVars, CCGlobalState, wVars, gpuVars, gThrVars, hintVars,
                   latestSysCpuLoadCC, cpuEma>>

\* lines 166-167: currentSysCpuLoad = getSysCpuLoad();
\* slope = currentSysCpuLoad - latestSysCpuLoadCC_
ExitSample ==
    /\ dpc = "exit_sample"
    /\ \E l \in SampleResults(cpuEma) :
          /\ cpuEma' = l
          /\ dSlope' = l - latestSysCpuLoadCC
    /\ dpc' = "exit_decide"
    /\ UNCHANGED <<timerVars, ghostVars>>
    /\ UNCHANGED <<cfgVars, hfiVars, CCGlobalState, wVars, gpuVars, gThrVars, hintVars,
                   latestSysCpuLoadCC>>

\* lines 171-181: leave CoreContainment, or re-arm the exit timer with 5 s
ExitDecide ==
    /\ dpc = "exit_decide"
    /\ IF SlopeIsHigh(dSlope)
         THEN /\ CCGlobalState' = "Open"
              /\ IF CCGlobalState # "Open" THEN CallHint("D", 0) ELSE NoHint
              /\ NoTimerCall
         ELSE /\ startCCExitDebounceTimer(kCCExitRearmS)
              /\ UNCHANGED CCGlobalState
              /\ NoHint
    /\ dpc' = "exit_relock"
    /\ dSlope' = 0
    /\ UNCHANGED <<cfgVars, hfiVars, wVars, gpuVars, gThrVars, efficientMode, effSent, samplerPaused,
                   latestSysCpuLoadCC, cpuEma>>

\* line 186 and back to line 109: lock.lock(), then the loop test
ExitRelock ==
    /\ dpc = "exit_relock"
    /\ hpc["D"] = "idle"
    /\ dpc' = LoopTop(ccEntryDebounceActive, ccExitDebounceActive)
    /\ UNCHANGED <<timerVars, ghostVars, dSlope>>
    /\ UNCHANGED <<cfgVars, hfiVars, CCGlobalState, wVars, gpuVars, gThrVars, hintVars,
                   latestSysCpuLoadCC, cpuEma>>

----------------------------------------------------------------------------
(* GpuRc6Monitor::pause / resume as the coordinator calls them: only when   *)
(* gpuMonitorThreadRunning_ is set                                          *)

GpuPauseIfRunning ==
    gpuPaused' = IF gpuMonitorThreadRunning /\ gpuRc6MonitorPtr THEN TRUE ELSE gpuPaused

GpuResumeIfRunning ==
    gpuPaused' = IF gpuMonitorThreadRunning /\ gpuRc6MonitorPtr THEN FALSE ELSE gpuPaused

\* handleChangeAlert returns to WltMonitor::monitorLoop, which stores previous_value
WltReturn ==
    /\ wpc' = "idle"
    /\ wltPrev' = wNew
    /\ wNew' = 0

WltContinue(at) ==
    /\ wpc' = at
    /\ UNCHANGED <<wltPrev, wNew>>

----------------------------------------------------------------------------
(* WltMonitor::monitorLoop and SocDaemon::handleChangeAlert("WltMonitor")   *)
(* with socHint_ == "wlt"; oldValue is PrevInt(wltPrev), newValue is wNew   *)

\* WltMonitor.cpp lines 169-184 and SocDaemon.cpp line 286: a changed value is
\* read, the callback is called and loads CCGlobalState_
WltEvent ==
    /\ socHint = "wlt"
    /\ wltMonitorOk
    /\ wpc = "idle"
    /\ \E nv \in WltInts :
          /\ nv # wltPrev
          /\ wNew' = nv
    /\ wpc' = IF CCGlobalState = "CoreContainment" THEN "cc_snapshot" ELSE "open"
    /\ UNCHANGED wltPrev
    /\ UNCHANGED <<cfgVars, hfiVars, CCGlobalState, timerVars, ghostVars, dVars,
                   gpuVars, gThrVars, hintVars, latestSysCpuLoadCC, cpuEma>>

\* faulty variant of WltCcSnapshot: the GPU monitor is started or resumed on
\* every WLT change seen in CoreContainment
WltCcSnapshotAlwaysResumes ==
    /\ wpc = "cc_snapshot"
    /\ latestSysCpuLoadCC' = IF IsIdleBtl(WltType(PrevInt(wltPrev)))
                                  /\ IsSustainBursty(WltType(wNew))
                               THEN cpuEma ELSE latestSysCpuLoadCC
    /\ gpuMonitorThreadRunning' = TRUE
    /\ gpuPaused' = FALSE
    /\ gpc' = IF gpuMonitorThreadRunning THEN gpc ELSE [gpc EXCEPT ![2] = "poll"]
    /\ cpuEma' \in SampleResults(cpuEma)
    /\ WltContinue("cc_switch")
    /\ UNCHANGED <<gVal, gfxMode, gfxSent>>
    /\ UNCHANGED <<cfgVars, hfiVars, CCGlobalState, timerVars, ghostVars, dVars, hintVars>>

\* faulty variant of WltCcSnapshot: the null test of gpuRc6MonitorPtr_ left out
WltCcSnapshotNoPtrTest ==
    /\ wpc = "cc_snapshot"
    /\ IF IsIdleBtl(WltType(PrevInt(wltPrev))) /\ IsSustainBursty(WltType(wNew))
         THEN /\ latestSysCpuLoadCC' = cpuEma
              /\ gpuMonitorThreadRunning' = TRUE
              /\ gpuPaused' = FALSE
              /\ gpc' = IF gpuMonitorThreadRunning THEN gpc ELSE [gpc EXCEPT ![2] = "poll"]
         ELSE UNCHANGED <<latestSysCpuLoadCC, gpuMonitorThreadRunning, gpuPaused, gpc>>
    /\ cpuEma' \in SampleResults(cpuEma)
    /\ WltContinue("cc_switch")
    /\ UNCHANGED <<gVal, gfxMode, gfxSent>>
    /\ UNCHANGED <<cfgVars, hfiVars, CCGlobalState, timerVars, ghostVars, dVars, hintVars>>

\* faulty variant of WltCcSnapshot: the snapshot is taken after getSysCpuLoad()
\* of line 312, from the EMA that call produced
WltCcSnapshotAfterSample ==
    /\ wpc = "cc_snapshot"
    /\ cpuEma' \in SampleResults(cpuEma)
    /\ IF IsIdleBtl(WltType(PrevInt(wltPrev))) /\ IsSustainBursty(WltType(wNew))
         THEN /\ latestSysCpuLoadCC' = cpuEma'
              /\ IF gpuRc6MonitorPtr
                   THEN /\ gpuMonitorThreadRunning' = TRUE
                        /\ gpuPaused' = FALSE
                        /\ gpc' = IF gpuMonitorThreadRunning THEN gpc
                                  ELSE [gpc EXCEPT ![2] = "poll"]
                   ELSE UNCHANGED <<gpuMonitorThreadRunning, gpuPaused, gpc>>
         ELSE UNCHANGED <<latestSysCpuLoadCC, gpuMonitorThreadRunning, gpuPaused, gpc>>
    /\ WltContinue("cc_switch")
    /\ UNCHANGED <<gVal, gfxMode, gfxSent>>
    /\ UNCHANGED <<cfgVars, hfiVars, CCGlobalState, timerVars, ghostVars, dVars, hintVars>>

\* lines 289-312: on Idle/Btl -> Sustain/Bursty in CoreContainment snapshot the
\* EMA, start a GPU monitor thread if the flag says none runs and resume the
\* monitor; then getSysCpuLoad(), whose result is dropped
WltCcSnapshot ==
    /\ wpc = "cc_snapshot"
    /\ IF IsIdleBtl(WltType(PrevInt(wltPrev))) /\ IsSustainBursty(WltType(wNew))
         THEN /\ latestSysCpuLoadCC' = cpuEma
              /\ IF gpuRc6MonitorPtr
                   THEN /\ gpuMonitorThreadRunning' = TRUE
                        /\ gpuPaused' = FALSE
                        /\ gpc' = IF gpuMonitorThreadRunning THEN gpc
                                  ELSE [gpc EXCEPT ![2] = "poll"]
                   ELSE UNCHANGED <<gpuMonitorThreadRunning, gpuPaused, gpc>>
         ELSE UNCHANGED <<latestSysCpuLoadCC, gpuMonitorThreadRunning, gpuPaused, gpc>>
    /\ cpuEma' \in SampleResults(cpuEma)
    /\ WltContinue("cc_switch")
    /\ UNCHANGED <<gVal, gfxMode, gfxSent>>
    /\ UNCHANGED <<cfgVars, hfiVars, CCGlobalState, timerVars, ghostVars, dVars, hintVars>>

\* lines 314-343: the switch in CoreContainment, up to the timer call
WltCcSwitch ==
    /\ wpc = "cc_switch"
    /\ IF IsIdleBtl(WltType(wNew))
         THEN /\ GpuPauseIfRunning
              /\ IF ccExitDebounceActive THEN WltContinue("stop_exit") ELSE WltReturn
         ELSE IF ~ccExitDebounceActive
                THEN /\ WltContinue("start_exit")
                     /\ UNCHANGED gpuPaused
                ELSE /\ GpuResumeIfRunning
                     /\ WltReturn
    /\ UNCHANGED gpuMonitorThreadRunning
    /\ UNCHANGED <<cfgVars, hfiVars, CCGlobalState, timerVars, ghostVars, dVars,
                   gThrVars, hintVars, latestSysCpuLoadCC, cpuEma>>

\* line 324: stopCCExitDebounceTimer()
WltStopExit ==
    /\ wpc = "stop_exit"
    /\ stopCCExitDebounceTimer
    /\ WltReturn
    /\ UNCHANGED <<cfgVars, hfiVars, CCGlobalState, dVars, gpuVars, gThrVars, hintVars,
                   latestSysCpuLoadCC, cpuEma>>

\* lines 333-338: startCCExitDebounceTimer() with the 1 s default, then resume
WltStartExit ==
    /\ wpc = "start_exit"
    /\ startCCExitDebounceTimer(kCCExitDefaultS)
    /\ GpuResumeIfRunning
    /\ WltReturn
    /\ UNCHANGED gpuMonitorThreadRunning
    /\ UNCHANGED <<cfgVars, hfiVars, CCGlobalState, dVars, gThrVars, hintVars,
                   latestSysCpuLoadCC, cpuEma>>

\* lines 348-380: the switch outside CoreContainment, up to the timer call
WltOpen ==
    /\ wpc = "open"
    /\ IF IsIdleBtl(WltType(wNew))
         THEN IF CCGlobalState = "Open" /\ ~ccEntryDebounceActive
                THEN /\ WltContinue("start_entry")
                     /\ UNCHANGED gpuPaused
                ELSE /\ GpuPauseIfRunning
                     /\ WltReturn
         ELSE IF WltType(wNew) = 2
                THEN IF ccEntryDebounceActive
                       THEN /\ WltContinue("stop_entry")
                            /\ UNCHANGED gpuPaused
                       ELSE /\ GpuResumeIfRunning
                            /\ WltReturn
                ELSE /\ WltReturn
                     /\ UNCHANGED gpuPaused
    /\ UNCHANGED gpuMonitorThreadRunning
    /\ UNCHANGED <<cfgVars, hfiVars, CCGlobalState, timerVars, ghostVars, dVars,
                   gThrVars, hintVars, latestSysCpuLoadCC, cpuEma>>

\* lines 353-360: startCCEntryDebounceTimer(), then pause
WltStartEntry ==
    /\ wpc = "start_entry"
    /\ startCCEntryDebounceTimer
    /\ GpuPauseIfRunning
    /\ WltReturn
    /\ UNCHANGED gpuMonitorThreadRunning
    /\ UNCHANGED <<cfgVars, hfiVars, CCGlobalState, dVars, gThrVars, hintVars,
                   latestSysCpuLoadCC, cpuEma>>

\* lines 365-372: stopCCEntryDebounceTimer(), then resume
WltStopEntry ==
    /\ wpc = "stop_entry"
    /\ stopCCEntryDebounceTimer
    /\ GpuResumeIfRunning
    /\ WltReturn
    /\ UNCHANGED gpuMonitorThreadRunning
    /\ UNCHANGED <<cfgVars, hfiVars, CCGlobalState, dVars, gThrVars, hintVars,
                   latestSysCpuLoadCC, cpuEma>>

----------------------------------------------------------------------------
(* The other modes of the hint source: socHint_ == "swlt" and "hfi"         *)

\* WltMonitor.cpp lines 169-186 and SocDaemon.cpp lines 382-388: a changed
\* value is read and the callback calls sendHintIfAllowed with its bit 4;
\* previous_value, local to the monitor thread, is stored on return
SwltEvent ==
    /\ socHint = "swlt"
    /\ wltMonitorOk
    /\ wpc = "idle"
    /\ hpc["W"] = "idle"
    /\ \E nv \in SwltInts :
          /\ nv # wltPrev
          /\ wltPrev' = nv
          /\ CallHint("W", Bit4(nv))
    /\ UNCHANGED <<wpc, wNew>>
    /\ UNCHANGED <<cfgVars, hfiVars, CCGlobalState, timerVars, ghostVars, dVars, gpuVars,
                   gThrVars, efficientMode, effSent, samplerPaused, latestSysCpuLoadCC,
                   cpuEma>>

\* faulty variant of HfiEvent: a message with eff = 255 also arms the entry
\* timer, as a WLT Idle event does
HfiEventArmsEntry ==
    /\ socHint = "hfi"
    /\ hpc["H"] = "idle"
    /\ \E eff \in HfiInts :
          /\ eff # efficient_power
          /\ efficient_power' = eff
          /\ CallHint("H", HfiHint(eff))
          /\ IF eff = kHfiEfficient THEN startCCEntryDebounceTimer ELSE NoTimerCall
    /\ UNCHANGED <<cfgVars, CCGlobalState, dVars, wVars, gpuVars,
                   gThrVars, efficientMode, effSent, samplerPaused, latestSysCpuLoadCC,
                   cpuEma>>

\* HfiMonitor.cpp lines 151-154 and SocDaemon.cpp lines 391-397: a capability
\* message with a changed eff calls sendHintIfAllowed(1) for 255, (0) otherwise
HfiEvent ==
    /\ socHint = "hfi"
    /\ hpc["H"] = "idle"
    /\ \E eff \in HfiInts :
          /\ eff # efficient_power
          /\ efficient_power' = eff
          /\ CallHint("H", HfiHint(eff))
    /\ UNCHANGED <<cfgVars, CCGlobalState, timerVars, ghostVars, dVars, wVars, gpuVars,
                   gThrVars, efficientMode, effSent, samplerPaused, latestSysCpuLoadCC,
                   cpuEma>>

----------------------------------------------------------------------------
(* SysLoadMonitor::monitorLoop and SocDaemon::handleChangeAlert("SysLoadMonitor") *)

\* SysLoadMonitor.cpp lines 17-32 and SocDaemon.cpp lines 399-408: not paused,
\* sample; above the high threshold the callback runs: exchange(Open), then
\* sendHintIfAllowed(0) when the state was not CoreContainment
SysSample ==
    /\ hpc["S"] = "idle"
    /\ ~samplerPaused
    /\ \E l \in SampleResults(cpuEma) :
          /\ cpuEma' = l
          /\ IF LoadIsSpike(l)
               THEN /\ CCGlobalState' = "Open"
                    /\ IF CCGlobalState # "CoreContainment"
                         THEN CallHint("S", 0)
                         ELSE NoHint
               ELSE /\ UNCHANGED CCGlobalState
                    /\ NoHint
    /\ UNCHANGED <<efficientMode, effSent, samplerPaused>>
    /\ UNCHANGED <<cfgVars, hfiVars, timerVars, ghostVars, dVars, wVars,
                   gpuVars, gThrVars, latestSysCpuLoadCC>>

----------------------------------------------------------------------------
(* GpuRc6Monitor::monitorLoop and SocDaemon::handleChangeAlert("GpuRc6Monitor") *)

\* GpuRc6Monitor.cpp lines 140-181: not paused, a changed residency is read,
\* classified (1 = high load, 0 = normal) and passed to the callback
GpuPoll(g) ==
    /\ gpc[g] = "poll"
    /\ ~gpuPaused
    /\ \E v \in {0, 1} : gVal' = [gVal EXCEPT ![g] = v]
    /\ gpc' = [gpc EXCEPT ![g] = "compare"]
    /\ UNCHANGED <<gfxMode, gfxSent>>
    /\ UNCHANGED <<cfgVars, hfiVars, CCGlobalState, timerVars, ghostVars, dVars, wVars,
                   gpuVars, hintVars, latestSysCpuLoadCC, cpuEma>>

\* SocDaemon.cpp lines 413-418, 460: sendGfxHintIfAllowed: if (value != gfxMode_)
GfxCompare(g) ==
    /\ gpc[g] = "compare"
    /\ gpc' = [gpc EXCEPT ![g] = IF gVal[g] # gfxMode THEN "send" ELSE "poll"]
    /\ gVal' = IF gVal[g] # gfxMode THEN gVal ELSE [gVal EXCEPT ![g] = 0]
    /\ UNCHANGED <<gfxMode, gfxSent>>
    /\ UNCHANGED <<cfgVars, hfiVars, CCGlobalState, timerVars, ghostVars, dVars, wVars,
                   gpuVars, hintVars, latestSysCpuLoadCC, cpuEma>>

\* SocDaemon.cpp lines 461-467: the sink call (when sendGfxHint_) and the cache update
GfxSend(g) ==
    /\ gpc[g] = "send"
    /\ gfxSent' = IF sendGfxHint THEN Record(gfxSent, gVal[g]) ELSE gfxSent
    /\ gfxMode' = gVal[g]
    /\ gpc' = [gpc EXCEPT ![g] = "poll"]
    /\ gVal' = [gVal EXCEPT ![g] = 0]
    /\ UNCHANGED <<cfgVars, hfiVars, CCGlobalState, timerVars, ghostVars, dVars, wVars,
                   gpuVars, hintVars, latestSysCpuLoadCC, cpuEma>>

----------------------------------------------------------------------------
(* WltMonitor::monitorLoop with its file operations, for SpecIo             *)

\* WltMonitor.cpp lines 162-186, one iteration: open() fails and the function
\* returns (line 166); or readValue fails and current_value keeps the text
\* of previous_value; or a text is read and, when it differs from
\* previous_value, both are converted with strtol and the callback is called
\* (line 184, SocDaemon.cpp line 286), whatever strtol reported
WltPoll ==
    /\ socHint = "wlt"
    /\ wAlive
    /\ wpc = "idle"
    /\ \E outcome \in {"open_fails", "read_fails", "read"}, s \in WltStrings :
          IF outcome = "open_fails"
            THEN /\ wAlive' = FALSE
                 /\ UNCHANGED <<previous_value, wpc, wNew>>
            ELSE IF outcome = "read_fails" \/ s = previous_value
                   THEN UNCHANGED <<wAlive, previous_value, wpc, wNew>>
                   ELSE /\ previous_value' = s
                        /\ wNew' = StrToL(s)
                        /\ wpc' = IF CCGlobalState = "CoreContainment"
                                    THEN "cc_snapshot" ELSE "open"
                        /\ UNCHANGED wAlive
    /\ UNCHANGED wltPrev
    /\ UNCHANGED <<cfgVars, hfiVars, CCGlobalState, timerVars, ghostVars, dVars,
                   gpuVars, gThrVars, hintVars, latestSysCpuLoadCC, cpuEma>>
    /\ UNCHANGED <<clockVars, wltEvents, sinkVars, wakeVars, emaVars, snapVars>>

----------------------------------------------------------------------------
(* SysLoadMonitor::monitorLoop step by step, for SpecWake: the paused wait   *)
(* of lines 17-24 is the predicate test and the block on pauseCv_, and       *)
(* pause() and restart() store the flag and notify without pauseMutex_       *)

\* the layer variables SpecWake leaves alone
notWake == <<clockVars, wltEvents, sinkVars, ioVars, emaVars, snapVars>>

\* variables of the other threads and of the coordinator
notSampler == <<cfgVars, hfiVars, CCGlobalState, timerVars, ghostVars, dVars, wVars,
                gpuVars, gThrVars, hintVars, latestSysCpuLoadCC, cpuEma>>

\* lines 18-20: lock pauseMutex_ and test the predicate of the wait
SWaitCheck ==
    /\ spc = "check"
    /\ spc' = IF samplerPaused THEN "prewait" ELSE "sample"
    /\ UNCHANGED <<notSampler, notWake>>

\* line 19: the predicate was false; release pauseMutex_ and block on pauseCv_
SWaitBlock ==
    /\ spc = "prewait"
    /\ spc' = "blocked"
    /\ UNCHANGED <<notSampler, notWake>>

\* lines 29-32: getSysCpuLoad(), and the callback above the threshold
SWakeSample ==
    /\ spc = "sample"
    /\ hpc["S"] = "idle"
    /\ \E l \in SampleResults(cpuEma) :
          /\ cpuEma' = l
          /\ IF LoadIsSpike(l)
               THEN /\ CCGlobalState' = "Open"
                    /\ IF CCGlobalState # "CoreContainment"
                         THEN CallHint("S", 0)
                         ELSE NoHint
               ELSE /\ UNCHANGED CCGlobalState
                    /\ NoHint
    /\ spc' = "sleep"
    /\ UNCHANGED <<efficientMode, effSent, samplerPaused>>
    /\ UNCHANGED <<cfgVars, hfiVars, timerVars, ghostVars, dVars, wVars,
                   gpuVars, gThrVars, latestSysCpuLoadCC>>
    /\ UNCHANGED notWake

\* lines 35-40: the callback has returned; wait_for ends at the interval or
\* as soon as the flag is set
SSleepDone ==
    /\ spc = "sleep"
    /\ hpc["S"] = "idle"
    /\ spc' = "check"
    /\ UNCHANGED <<notSampler, notWake>>

\* SysLoadMonitor.h lines 77 and 84: pauseCv_.notify_all() wakes the thread
\* if it is blocked on pauseCv_; the thread tests the predicate again
NotifyAll ==
    /\ spc' = IF spc = "blocked" THEN "check" ELSE spc
    /\ UNCHANGED notWake

----------------------------------------------------------------------------
(* Time, for SpecTimed.  The clocks count down the seconds left until a     *)
(* point in time; only the entry timer is timed, the exit wait may end at   *)
(* any moment.                                                              *)

Max0(n) == IF n > 0 THEN n ELSE 0

\* TickS seconds pass
Tick ==
    /\ entryRemain > 0 \/ entryArmRemain > 0
    /\ entryRemain' = Max0(entryRemain - TickS)
    /\ entryArmRemain' = Max0(entryArmRemain - TickS)
    /\ UNCHANGED <<cfgVars, hfiVars, CCGlobalState, timerVars, ghostVars, dVars, wVars, gpuVars,
                   gThrVars, hintVars, latestSysCpuLoadCC, cpuEma, wltEvents, moreVars>>

\* What a step of a thread means for the clocks.
\*  line 112:  deadline = now + kCCEntryDebounceMs, computed once when the
\*             worker starts the entry wait;
\*  line 116:  wait_until(deadline) returns timeout only at the deadline, and
\*             the loop ends before it only when the active flag is cleared;
\*  line 199:  ccEntryDebounceStartTime_ = now, in startCCEntryDebounceTimer.
ClockRules ==
    /\ (dpc = "entry_wait" /\ dpc' # "entry_wait")
          => (entryRemain = 0 \/ ~ccEntryDebounceActive)
    /\ entryRemain' = IF dpc' = "entry_wait"
                        THEN IF dpc = "entry_wait" THEN entryRemain ELSE kCCEntryDebounceS
                        ELSE 0
    /\ entryArmRemain' = IF wpc = "start_entry" /\ wpc' # "start_entry"
                           THEN kCCEntryDebounceS
                           ELSE IF ccEntryDebounceActive' THEN entryArmRemain ELSE 0
    /\ UNCHANGED <<wltEvents, moreVars>>

----------------------------------------------------------------------------
(* The arithmetic of SysLoadMonitor::getSysCpuLoad, for SpecEma.  Percent   *)
(* values are integers, the quotient of line 419 rounded down; alpha is in  *)
(* thousandths and the weighted sum of line 357 is rounded down.            *)

\* line 349 with kCpuEmaTimeConstantSec = 1.5 and lines 350-353:
\* 1 - exp(-dt / 1.5), dt in whole seconds; 1.0 once exp() is below half an
\* ulp of 1.0
Alpha(dt) ==
    CASE dt = 0 -> 0
      [] dt = 1 -> 487
      [] dt = 2 -> 736
      [] dt = 3 -> 865
      [] dt = 4 -> 931
      [] dt = 5 -> 964
      [] dt = 6 -> 982
      [] dt = 7 -> 991
      [] dt = 8 -> 995
      [] OTHER  -> AlphaScale

\* lines 410-420: the raw utilisation between two samples; a counter that
\* went down gives a delta of 0
RawUtil(last, cur) ==
    LET deltaTotal == IF cur.totalTime >= last.totalTime
                        THEN cur.totalTime - last.totalTime ELSE 0
        deltaIdle  == IF cur.idleTime >= last.idleTime
                        THEN cur.idleTime - last.idleTime ELSE 0
        busy       == IF deltaTotal > deltaIdle THEN deltaTotal - deltaIdle ELSE 0
    IN  IF deltaTotal > 0 THEN (busy * 100) \div deltaTotal ELSE None

\* faulty variant of EmaUpdate: the old value is not weighted with 1 - alpha
EmaUpdateNoDecay(ema, raw, a) == ema + (raw * a) \div AlphaScale

\* line 357: g_cpuEmaValue * (1.0 - alpha) + rawPercent * alpha
EmaUpdate(ema, raw, a) == (ema * (AlphaScale - a) + raw * a) \div AlphaScale

\* faulty variant of ApplyEma: the first defined sample is smoothed from 0
ApplyEmaSmoothsFirst(ema, raw, a) ==
    IF raw < 0 THEN ema
    ELSE EmaUpdate(IF ema < 0 THEN 0 ELSE ema, raw, a)

\* applyEmaIrregularSample, the new g_cpuEmaValue: lines 337-340 for an
\* undefined raw value, 343-347 for the first defined one, 349-357 after it
ApplyEma(ema, raw, a) ==
    IF raw < 0 THEN ema
    ELSE IF ema < 0 THEN raw
    ELSE EmaUpdate(ema, raw, a)

\* one second passes on the steady clock
EmaTick ==
    /\ emaNow < MaxNow
    /\ emaNow' = emaNow + 1
    /\ UNCHANGED <<emaPrev, emaLastTs, currentSample, rawUtil>>
    /\ UNCHANGED <<cfgVars, hfiVars, CCGlobalState, timerVars, ghostVars, dVars, wVars,
                   gpuVars, gThrVars, hintVars, latestSysCpuLoadCC, cpuEma>>
    /\ UNCHANGED <<clockVars, wltEvents, sinkVars, wakeVars, ioVars, snapVars>>

\* SysLoadMonitor::getSysCpuLoad, lines 369-427, with applyEmaIrregularSample:
\* /proc/stat cannot be read (lines 372-389) and the raw value is -1, or its
\* "cpu" line gives the counters total and idle
GetSysCpuLoad ==
    /\ \E ok \in BOOLEAN, total \in 0..MaxJiffies, idle \in 0..MaxJiffies :
          LET cur == IF ok THEN [totalTime |-> total, idleTime |-> idle]
                           ELSE currentSample
              raw == IF ok THEN RawUtil(currentSample, cur) ELSE None
              dt  == Max0(emaNow - emaLastTs)
          IN  /\ currentSample' = cur
              /\ rawUtil' = raw
              /\ cpuEma' = ApplyEma(cpuEma, raw, Alpha(dt))
              /\ emaPrev' = IF raw >= 0 /\ cpuEma >= 0 THEN cpuEma ELSE emaPrev
              /\ emaLastTs' = emaNow
    /\ UNCHANGED emaNow
    /\ UNCHANGED <<cfgVars, hfiVars, CCGlobalState, timerVars, ghostVars, dVars, wVars,
                   gpuVars, gThrVars, hintVars, latestSysCpuLoadCC>>
    /\ UNCHANGED <<clockVars, wltEvents, sinkVars, wakeVars, ioVars, snapVars>>

----------------------------------------------------------------------------
(* Specifications *)

\* The coordinator in wlt mode with the debounce worker, the WLT monitor
\* thread and the SysLoadMonitor thread; a timed wait may end at any moment
Next ==
    \/ DebounceWake /\ UNCHANGED layerVars
    \/ EntryWaitDone /\ UNCHANGED layerVars
    \/ EntryBody /\ UNCHANGED layerVars
    \/ EntryRelock /\ UNCHANGED layerVars
    \/ ExitWaitDone /\ UNCHANGED layerVars
    \/ ExitCheckState /\ UNCHANGED layerVars
    \/ ExitSample /\ UNCHANGED layerVars
    \/ ExitDecide /\ UNCHANGED layerVars
    \/ ExitRelock /\ UNCHANGED layerVars
    \/ WltEvent /\ UNCHANGED layerVars
    \/ WltCcSnapshot /\ UNCHANGED layerVars
    \/ WltCcSwitch /\ UNCHANGED layerVars
    \/ WltStopExit /\ UNCHANGED layerVars
    \/ WltStartExit /\ UNCHANGED layerVars
    \/ WltOpen /\ UNCHANGED layerVars
    \/ WltStartEntry /\ UNCHANGED layerVars
    \/ WltStopEntry /\ UNCHANGED layerVars
    \/ SysSample /\ UNCHANGED layerVars
    \/ (\E c \in Callers : HintCompare(c)) /\ UNCHANGED layerVars
    \/ (\E c \in Callers : HintSend(c)) /\ UNCHANGED layerVars

Spec == Init /\ [][Next]_vars

\* The debounce worker and the WLT monitor thread with the entry timer timed;
\* the SysLoadMonitor thread takes no step
NextTimed ==
    \/ Tick
    \/ DebounceWake /\ ClockRules
    \/ EntryWaitDone /\ ClockRules
    \/ EntryBody /\ ClockRules
    \/ EntryRelock /\ ClockRules
    \/ ExitWaitDone /\ ClockRules
    \/ ExitCheckState /\ ClockRules
    \/ ExitSample /\ ClockRules
    \/ ExitDecide /\ ClockRules
    \/ ExitRelock /\ ClockRules
    \/ WltEvent /\ ClockRules
    \/ WltCcSnapshot /\ ClockRules
    \/ WltCcSwitch /\ ClockRules
    \/ WltStopExit /\ ClockRules
    \/ WltStartExit /\ ClockRules
    \/ WltOpen /\ ClockRules
    \/ WltStartEntry /\ ClockRules
    \/ WltStopEntry /\ ClockRules
    \/ HintCompare("D") /\ ClockRules
    \/ HintSend("D") /\ ClockRules

SpecTimed == Init /\ [][NextTimed]_vars

\* SpecGfx: the WLT change this step delivers is one of the first MaxWltEvents
CountedEvent ==
    /\ wltEvents < MaxWltEvents
    /\ wltEvents' = wltEvents + 1
    /\ UNCHANGED <<clockVars, moreVars>>

\* The debounce worker, the WLT monitor thread and the threads running
\* GpuRc6Monitor::monitorLoop, for the first MaxWltEvents WLT changes; the
\* SysLoadMonitor thread takes no step
NextGfx ==
    \/ DebounceWake /\ UNCHANGED layerVars
    \/ EntryWaitDone /\ UNCHANGED layerVars
    \/ EntryBody /\ UNCHANGED layerVars
    \/ EntryRelock /\ UNCHANGED layerVars
    \/ ExitWaitDone /\ UNCHANGED layerVars
    \/ ExitCheckState /\ UNCHANGED layerVars
    \/ ExitSample /\ UNCHANGED layerVars
    \/ ExitDecide /\ UNCHANGED layerVars
    \/ ExitRelock /\ UNCHANGED layerVars
    \/ WltEvent /\ CountedEvent
    \/ WltCcSnapshot /\ UNCHANGED layerVars
    \/ WltCcSwitch /\ UNCHANGED layerVars
    \/ WltStopExit /\ UNCHANGED layerVars
    \/ WltStartExit /\ UNCHANGED layerVars
    \/ WltOpen /\ UNCHANGED layerVars
    \/ WltStartEntry /\ UNCHANGED layerVars
    \/ WltStopEntry /\ UNCHANGED layerVars
    \/ HintCompare("D") /\ UNCHANGED layerVars
    \/ HintSend("D") /\ UNCHANGED layerVars
    \/ (\E g \in GpuThreads : GpuPoll(g)) /\ UNCHANGED layerVars
    \/ (\E g \in GpuThreads : GfxCompare(g)) /\ UNCHANGED layerVars
    \/ (\E g \in GpuThreads : GfxSend(g)) /\ UNCHANGED layerVars

SpecGfx == Init /\ [][NextGfx]_vars

\* swlt mode: the WLT monitor thread and the SysLoadMonitor thread; the GPU
\* monitor thread stays paused (start() line 46, no resume outside the wlt
\* branch) and the debounce worker is never notified
NextSwlt ==
    \/ SwltEvent /\ UNCHANGED layerVars
    \/ SysSample /\ UNCHANGED layerVars
    \/ (\E c \in Callers : HintCompare(c)) /\ UNCHANGED layerVars
    \/ (\E c \in Callers : HintSend(c)) /\ UNCHANGED layerVars

SpecSwlt == InitSwlt /\ [][NextSwlt]_vars

\* hfi mode: the HFI monitor thread and the SysLoadMonitor thread; the GPU
\* monitor thread stays paused and the debounce worker is never notified
NextHfi ==
    \/ HfiEvent /\ UNCHANGED layerVars
    \/ SysSample /\ UNCHANGED layerVars
    \/ (\E c \in Callers : HintCompare(c)) /\ UNCHANGED layerVars
    \/ (\E c \in Callers : HintSend(c)) /\ UNCHANGED layerVars

SpecHfi == InitHfi /\ [][NextHfi]_vars

\* wlt mode as in Spec, started with sendHint either way
SpecSend == InitSend /\ [][Next]_vars

\* wlt mode as in Spec, started after an init() failure
SpecInit == InitFail /\ [][Next]_vars

\* HintManager.cpp lines 39-53, called at SocDaemon.cpp line 442: sendHint
\* returns false when the Power HAL is not connected or setMode fails, true
\* otherwise; the caller drops the result
SinkOutcome ==
    /\ sinkResult' \in (IF sendHint THEN {"ok", "fail"} ELSE {sinkResult})
    /\ UNCHANGED <<clockVars, wltEvents, wakeVars, ioVars, emaVars, snapVars>>

\* Spec with a sink that may fail, for the first MaxWltEvents WLT changes
NextSink ==
    \/ DebounceWake /\ UNCHANGED layerVars
    \/ EntryWaitDone /\ UNCHANGED layerVars
    \/ EntryBody /\ UNCHANGED layerVars
    \/ EntryRelock /\ UNCHANGED layerVars
    \/ ExitWaitDone /\ UNCHANGED layerVars
    \/ ExitCheckState /\ UNCHANGED layerVars
    \/ ExitSample /\ UNCHANGED layerVars
    \/ ExitDecide /\ UNCHANGED layerVars
    \/ ExitRelock /\ UNCHANGED layerVars
    \/ WltEvent /\ CountedEvent
    \/ WltCcSnapshot /\ UNCHANGED layerVars
    \/ WltCcSwitch /\ UNCHANGED layerVars
    \/ WltStopExit /\ UNCHANGED layerVars
    \/ WltStartExit /\ UNCHANGED layerVars
    \/ WltOpen /\ UNCHANGED layerVars
    \/ WltStartEntry /\ UNCHANGED layerVars
    \/ WltStopEntry /\ UNCHANGED layerVars
    \/ SysSample /\ UNCHANGED layerVars
    \/ (\E c \in Callers : HintCompare(c)) /\ UNCHANGED layerVars
    \/ (\E c \in Callers : HintSend(c)) /\ SinkOutcome

SpecSink == Init /\ [][NextSink]_vars

\* The debounce worker and the WLT monitor thread, whose loop opens, reads
\* and parses the sysfs file; the SysLoadMonitor thread takes no step
NextIo ==
    \/ DebounceWake /\ UNCHANGED layerVars
    \/ EntryWaitDone /\ UNCHANGED layerVars
    \/ EntryBody /\ UNCHANGED layerVars
    \/ EntryRelock /\ UNCHANGED layerVars
    \/ ExitWaitDone /\ UNCHANGED layerVars
    \/ ExitCheckState /\ UNCHANGED layerVars
    \/ ExitSample /\ UNCHANGED layerVars
    \/ ExitDecide /\ UNCHANGED layerVars
    \/ ExitRelock /\ UNCHANGED layerVars
    \/ WltPoll
    \/ WltCcSnapshot /\ UNCHANGED layerVars
    \/ WltCcSwitch /\ UNCHANGED layerVars
    \/ WltStopExit /\ UNCHANGED layerVars
    \/ WltStartExit /\ UNCHANGED layerVars
    \/ WltOpen /\ UNCHANGED layerVars
    \/ WltStartEntry /\ UNCHANGED layerVars
    \/ WltStopEntry /\ UNCHANGED layerVars
    \/ HintCompare("D") /\ UNCHANGED layerVars
    \/ HintSend("D") /\ UNCHANGED layerVars

SpecIo == Init /\ [][NextIo]_vars

\* What a step means for the record of the snapshot: line 292 takes one,
\* and a change of CCGlobalState_ to CoreContainment (line 132) starts an
\* episode that has none yet
SnapRule ==
    /\ snapshotFresh' =
          IF CCGlobalState # "CoreContainment" /\ CCGlobalState' = "CoreContainment"
            THEN FALSE
            ELSE IF wpc = "cc_snapshot"
                      /\ IsIdleBtl(WltType(PrevInt(wltPrev)))
                      /\ IsSustainBursty(WltType(wNew))
                   THEN TRUE
                   ELSE snapshotFresh
    /\ UNCHANGED <<clockVars, wltEvents, sinkVars, wakeVars, ioVars, emaVars>>

\* Spec with the record of whether latestSysCpuLoadCC_ was written in the
\* current CoreContainment episode
NextSnap ==
    \/ DebounceWake /\ SnapRule
    \/ EntryWaitDone /\ SnapRule
    \/ EntryBody /\ SnapRule
    \/ EntryRelock /\ SnapRule
    \/ ExitWaitDone /\ SnapRule
    \/ ExitCheckState /\ SnapRule
    \/ ExitSample /\ SnapRule
    \/ ExitDecide /\ SnapRule
    \/ ExitRelock /\ SnapRule
    \/ WltEvent /\ SnapRule
    \/ WltCcSnapshot /\ SnapRule
    \/ WltCcSwitch /\ SnapRule
    \/ WltStopExit /\ SnapRule
    \/ WltStartExit /\ SnapRule
    \/ WltOpen /\ SnapRule
    \/ WltStartEntry /\ SnapRule
    \/ WltStopEntry /\ SnapRule
    \/ SysSample /\ SnapRule
    \/ (\E c \in Callers : HintCompare(c)) /\ SnapRule
    \/ (\E c \in Callers : HintSend(c)) /\ SnapRule

SpecSnap == Init /\ [][NextSnap]_vars

\* The debounce worker is scheduled: each of its steps is taken if it stays
\* possible, a timed wait (lines 116, 156) ends at its deadline at the
\* latest, and its sendHintIfAllowed call runs to its end
WorkerFair ==
    /\ WF_vars(DebounceWake /\ UNCHANGED layerVars)
    /\ WF_vars(EntryWaitDone /\ UNCHANGED layerVars)
    /\ WF_vars(EntryBody /\ UNCHANGED layerVars)
    /\ WF_vars(EntryRelock /\ UNCHANGED layerVars)
    /\ WF_vars(ExitWaitDone /\ UNCHANGED layerVars)
    /\ WF_vars(ExitCheckState /\ UNCHANGED layerVars)
    /\ WF_vars(ExitSample /\ UNCHANGED layerVars)
    /\ WF_vars(ExitDecide /\ UNCHANGED layerVars)
    /\ WF_vars(ExitRelock /\ UNCHANGED layerVars)
    /\ WF_vars(HintCompare("D") /\ UNCHANGED layerVars)
    /\ WF_vars(HintSend("D") /\ UNCHANGED layerVars)

\* The debounce worker, fairly scheduled, and the WLT monitor thread, which
\* may deliver events or not; the SysLoadMonitor thread takes no step
NextLive ==
    \/ DebounceWake /\ UNCHANGED layerVars
    \/ EntryWaitDone /\ UNCHANGED layerVars
    \/ EntryBody /\ UNCHANGED layerVars
    \/ EntryRelock /\ UNCHANGED layerVars
    \/ ExitWaitDone /\ UNCHANGED layerVars
    \/ ExitCheckState /\ UNCHANGED layerVars
    \/ ExitSample /\ UNCHANGED layerVars
    \/ ExitDecide /\ UNCHANGED layerVars
    \/ ExitRelock /\ UNCHANGED layerVars
    \/ WltEvent /\ UNCHANGED layerVars
    \/ WltCcSnapshot /\ UNCHANGED layerVars
    \/ WltCcSwitch /\ UNCHANGED layerVars
    \/ WltStopExit /\ UNCHANGED layerVars
    \/ WltStartExit /\ UNCHANGED layerVars
    \/ WltOpen /\ UNCHANGED layerVars
    \/ WltStartEntry /\ UNCHANGED layerVars
    \/ WltStopEntry /\ UNCHANGED layerVars
    \/ HintCompare("D") /\ UNCHANGED layerVars
    \/ HintSend("D") /\ UNCHANGED layerVars

SpecLive == Init /\ [][NextLive]_vars /\ WorkerFair

\* The calls of getSysCpuLoad over time, with the state of the EMA
NextEma ==
    \/ EmaTick
    \/ GetSysCpuLoad

SpecEma == Init /\ [][NextEma]_vars

\* hfi mode with the SysLoadMonitor thread step by step
NextWake ==
    \/ HfiEvent /\ UNCHANGED layerVars
    \/ SWaitCheck
    \/ SWaitBlock
    \/ SWakeSample
    \/ SSleepDone
    \/ (\E c \in Callers : HintCompare(c)) /\ UNCHANGED layerVars
    \/ (\E c \in Callers : HintSend(c)) /\ NotifyAll

\* The SysLoadMonitor thread keeps running: none of its steps, nor a step of
\* its callback, stays enabled for ever without being taken
SamplerFair ==
    /\ WF_vars(SWaitCheck)
    /\ WF_vars(SWaitBlock)
    /\ WF_vars(SWakeSample)
    /\ WF_vars(SSleepDone)
    /\ WF_vars(HintCompare("S") /\ UNCHANGED layerVars)
    /\ WF_vars(HintSend("S") /\ NotifyAll)

SpecWake == InitHfi /\ [][NextWake]_vars /\ SamplerFair

----------------------------------------------------------------------------
(* Properties *)

\* A step of the SysLoadMonitor thread that sampled a load above the high threshold
SpikeStep ==
    /\ ~samplerPaused
    /\ hpc["S"] = "idle"
    /\ cpuEma' > kSysloadHighThreshold
    /\ UNCHANGED <<dVars, wVars>>

\* C1: CCGlobalState changes value only in the entry-expiry body with a sampled
\* load below 25 (Open to CoreContainment), in the exit-expiry body with a
\* slope above 5 (CoreContainment to Open), or in the SysLoadMonitor busy-spike
\* callback (CoreContainment to Open); no step of the WLT handler changes it.
StateChangesOnlyAtThreeSteps ==
    [][CCGlobalState' # CCGlobalState =>
         \/ /\ dpc = "entry_body" /\ dpc' = "entry_relock"
            /\ cpuEma' < kEntryLoadThreshold
            /\ CCGlobalState = "Open" /\ CCGlobalState' = "CoreContainment"
         \/ /\ dpc = "exit_decide" /\ dpc' = "exit_relock"
            /\ dSlope > kSysloadSlopeThreshold
            /\ CCGlobalState = "CoreContainment" /\ CCGlobalState' = "Open"
         \/ /\ SpikeStep
            /\ CCGlobalState = "CoreContainment" /\ CCGlobalState' = "Open"]_vars

\* C1 witness: the exit-expiry body has just moved the state from
\* CoreContainment (entered by an entry-expiry body) back to Open
ExitBodyHasOpened ==
    /\ dpc = "exit_relock"
    /\ hpc["D"] = "compare" /\ hVal["D"] = 0
    /\ CCGlobalState = "Open"
    /\ effSent = <<1>>

\* C2: no two consecutive EFFICIENT_POWER values handed to the sink are equal
NoRepeatedEfficientPower ==
    Len(effSent) = 2 => effSent[1] # effSent[2]

\* C3: no two consecutive GFX_MODE values handed to the sink are equal
NoRepeatedGfxMode ==
    Len(gfxSent) = 2 => gfxSent[1] # gfxSent[2]

\* C4: between two calls of startCCEntryDebounceTimer the entry-expiry body
\* starts at most once
EntryBodyAtMostOncePerArm == entryRuns <= 1

\* C4 witness: the body of an arm is running while the WLT handler is about to
\* cancel that arm
EntryBodyRunsWhileCancelPending ==
    /\ entryRuns = 1
    /\ dpc = "entry_body"
    /\ wpc = "stop_entry"

\* C5: the entry-expiry body starts no earlier than the time of the last
\* startCCEntryDebounceTimer plus kCCEntryDebounceMs
EntryBodyNotBeforeLastArm ==
    [][(dpc = "entry_wait" /\ dpc' = "entry_body") => entryArmRemain = 0]_vars

\* C6: a debounce wait that ends with its timer cancelled and not armed again
\* skips the expiry body, changes neither the state nor the hints sent and
\* leaves the timer inactive; an expiry body starts only uncancelled; the
\* cancel from a WLT Sustain event leaves the entry timer inactive and changes
\* neither the state nor the hints sent
CancelledTimerSkipsBody ==
    [][/\ (dpc = "entry_wait" /\ dpc' # dpc /\ ccEntryDebounceCancelled
             /\ ~ccEntryDebounceActive)
          => /\ dpc' # "entry_body"
             /\ ~ccEntryDebounceActive'
             /\ UNCHANGED <<CCGlobalState, effSent, hpc>>
       /\ (dpc = "exit_wait" /\ dpc' # dpc /\ ccExitDebounceCancelled
             /\ ~ccExitDebounceActive)
          => /\ dpc' # "exit_body"
             /\ ~ccExitDebounceActive'
             /\ UNCHANGED <<CCGlobalState, effSent, hpc>>
       /\ (dpc' = "entry_body" /\ dpc # "entry_body") => ~ccEntryDebounceCancelled
       /\ (dpc' = "exit_body" /\ dpc # "exit_body") => ~ccExitDebounceCancelled
       /\ (wpc = "stop_entry" /\ wpc' = "idle")
          => /\ ~ccEntryDebounceActive' /\ ccEntryDebounceCancelled'
             /\ WltType(wNew) = 2
             /\ UNCHANGED <<CCGlobalState, effSent, hpc>>]_vars

\* C6 witness: from Open, a WLT Idle/Btl event armed the entry timer, the
\* worker waits on it, and a WLT Sustain event has cancelled it
EntryCancelledWhileWaiting ==
    /\ dpc = "entry_wait"
    /\ ccEntryDebounceCancelled /\ ~ccEntryDebounceActive
    /\ wpc = "idle" /\ wltPrev = 2
    /\ CCGlobalState = "Open"
    /\ effSent = <<>>

\* C7: once a WLT event has been handled, the GPU monitor is paused exactly
\* when the most recent WLT classification is Idle or Btl
GpuPausedTracksWlt ==
    (wpc = "idle" /\ wltPrev # None) => (gpuPaused <=> IsIdleBtl(WltType(wltPrev)))

\* C8: the sendHintIfAllowed(1) call of an entry-expiry body that moved the
\* state from Open to CoreContainment hands EFFICIENT_POWER=1 to the sink
EntryBodyEmitsOne ==
    [][(dpc = "entry_relock" /\ hpc["D"] = "compare" /\ hpc'["D"] # "compare")
          => hpc'["D"] = "send"]_vars

\* C9: an exit-expiry body that found the state CoreContainment and the slope
\* above 5 calls sendHintIfAllowed(0), and the call hands EFFICIENT_POWER=0 to
\* the sink
ExitBodyEmitsZero ==
    [][/\ (dpc = "exit_decide" /\ dSlope > kSysloadSlopeThreshold /\ dpc' = "exit_relock")
          => (CCGlobalState' = "Open" /\ hpc'["D"] = "compare" /\ hVal'["D"] = 0)
       /\ (dpc = "exit_relock" /\ hpc["D"] = "compare" /\ hpc'["D"] # "compare")
          => hpc'["D"] = "send"]_vars

BusySpikeEmitsZero ==
    [][/\ (SpikeStep /\ CCGlobalState = "CoreContainment")
          => (CCGlobalState' = "Open" /\ hpc'["S"] = "compare" /\ hVal'["S"] = 0)
       /\ (CCGlobalState = "Open" /\ efficientMode = 1 /\ hpc["S"] = "compare"
             /\ hpc'["S"] # "compare")
          => hpc'["S"] = "send"]_vars

\* C12: a busy-spike callback that moves the state from CoreContainment to
\* Open while the exit timer is active leaves the exit timer inactive
BusySpikeCancelsExitTimer ==
    [][(SpikeStep /\ CCGlobalState = "CoreContainment" /\ CCGlobalState' = "Open"
          /\ ccExitDebounceActive)
          => ~ccExitDebounceActive']_vars

\* No call of sendHintIfAllowed is in progress
NoHintCallInProgress == \A c \in Callers : hpc[c] = "idle"

\* C13: in swlt mode, once the first WLT event has been handled its bit-4
\* value has been handed to the sink, and after every handled event the last
\* value handed to the sink is bit 4 of that event
SwltEventsEmitBit4 ==
    (wltPrev # None /\ NoHintCallInProgress)
       => (effSent # <<>> /\ effSent[Len(effSent)] = Bit4(wltPrev))

\* C14: in swlt mode, with no call in progress, the cached EFFICIENT_POWER
\* value is bit 4 of the most recent WLT integer
SwltHintIsBit4OfLatest ==
    (wltPrev # None /\ NoHintCallInProgress) => efficientMode = Bit4(wltPrev)

\* C15: in hfi mode, with no call in progress, the cached EFFICIENT_POWER
\* value is 1 exactly when the most recent HFI eff value is 255
HfiHintIs255OfLatest ==
    NoHintCallInProgress => efficientMode = HfiHint(efficient_power)

\* C16: with sendHint disabled nothing is handed to the sink, and the step
\* that ends a sendHintIfAllowed call updates the cached value and pauses or
\* restarts the CPU-load monitor from the requested value alone, leaving the
\* state and the timers as they are, whether sendHint is enabled or not
SendHintOffOnlySkipsSink ==
    /\ [](~sendHint => effSent = <<>>)
    /\ [][\A c \in Callers :
            (hpc[c] = "send" /\ hpc'[c] = "idle")
               => /\ efficientMode' = hVal[c]
                  /\ samplerPaused' = (hVal[c] = 0)
                  /\ effSent' = IF sendHint THEN Record(effSent, hVal[c]) ELSE effSent
                  /\ UNCHANGED <<CCGlobalState, timerVars, latestSysCpuLoadCC>>]_vars

\* C16 witness: with sendHint disabled the state is CoreContainment, the
\* cached value is 1, the CPU-load monitor runs, and the sink saw nothing
ContainmentWithSendHintOff ==
    /\ ~sendHint
    /\ CCGlobalState = "CoreContainment"
    /\ efficientMode = 1
    /\ ~samplerPaused
    /\ effSent = <<>>
    /\ NoHintCallInProgress

\* The debounce worker is inside an expiry body, between the unlock at line
\* 126 or 162 and the lock at line 142 or 186
InExpiryBody ==
    dpc \in {"entry_body", "entry_relock", "exit_body", "exit_sample", "exit_decide",
             "exit_relock"}

\* C17: no two of the WLT callback handler, the SysLoadMonitor callback
\* handler and a timer expiry body are in execution at the same time
HandlersMutuallyExclusive ==
    /\ ~(wpc # "idle" /\ hpc["S"] # "idle")
    /\ ~(wpc # "idle" /\ InExpiryBody)
    /\ ~(hpc["S"] # "idle" /\ InExpiryBody)

SamplerRunsOnlyInContainment ==
    (wpc = "idle" /\ NoHintCallInProgress /\ ~InExpiryBody /\ ~samplerPaused)
       => CCGlobalState = "CoreContainment"

\* C20: the GPU monitor is paused at start, and a step un-pauses it only
\* inside the handler of a WLT event whose new classification is Sustain or
\* Bursty
GpuResumedOnlyOnActiveWlt ==
    /\ gpuPaused = TRUE
    /\ [][(gpuPaused /\ ~gpuPaused')
            => (wpc # "idle" /\ IsSustainBursty(WltType(wNew)))]_vars

\* C20 witness: a WLT Sustain or Bursty event has been handled and the GPU
\* monitor, whose thread the handler started, is un-paused
GpuResumedAfterActiveWlt ==
    /\ ~gpuPaused
    /\ gpuMonitorThreadRunning
    /\ wpc = "idle"
    /\ wltPrev # None /\ IsSustainBursty(WltType(wltPrev))

\* C21: at most one thread runs GpuRc6Monitor::monitorLoop
OneWorkerPerGpuMonitor ==
    Cardinality({g \in GpuThreads : gpc[g] # "off"}) <= 1

SinkFailureStillCaches ==
    [][\A c \in Callers :
          (hpc[c] = "send" /\ hpc'[c] = "idle")
             => /\ sinkResult' = "fail"
                   => (efficientMode' = hVal[c] /\ UNCHANGED CCGlobalState)
                /\ sinkResult = "fail" => hVal[c] # effSent[Len(effSent)]]_vars

\* C24: in hfi mode the state is Open and neither debounce timer is active
HfiModeNeverArms ==
    /\ CCGlobalState = "Open"
    /\ ~ccEntryDebounceActive
    /\ ~ccExitDebounceActive
    /\ dpc = "wait"

\* C24 witness: in hfi mode an HFI value of 255 was mapped to
\* EFFICIENT_POWER=1 and a busy-spike callback has sent 0 after it
HfiAndSysLoadHaveCalled ==
    /\ socHint = "hfi"
    /\ efficient_power = kHfiEfficient
    /\ effSent = <<1, 0>>
    /\ cpuEma > kSysloadHighThreshold
    /\ NoHintCallInProgress

\* C25: once the paused flag of the SysLoadMonitor is clear, the thread
\* reaches its sample, unless the flag is set again first
RestartWakesSampler ==
    (~samplerPaused) ~> (spc = "sample" \/ samplerPaused)

\* C26: the thread of a WltMonitor that start() launched never leaves
\* monitorLoop
WltMonitorKeepsRunning == wltMonitorOk => wAlive

\* C27: a loop iteration of the WltMonitor that reads a text strtol rejects
\* does not call the change callback and changes no coordinator state
UnparsableSampleDiscarded ==
    [][(previous_value' = Unparsable /\ previous_value # Unparsable)
          => UNCHANGED <<wpc, wNew, CCGlobalState, timerVars, hintVars, gpuVars>>]_vars

\* C28: when the entry timer is armed while the worker is inside its entry
\* wait, the deadline of that wait becomes the time of the arming plus the
\* entry duration
EntryDeadlineIsArmTimePlusDuration ==
    [][(/\ dpc = "entry_wait" /\ dpc' = "entry_wait"
        /\ wpc = "start_entry" /\ wpc' # "start_entry")
          => entryRemain' = entryArmRemain']_vars

\* C29: once a first defined raw sample has initialised it, the CPU-load EMA
\* is in [0, 100], and every raw sample is undefined or in [0, 100]
EmaStaysInRange ==
    /\ cpuEma # None => cpuEma \in 0..100
    /\ rawUtil # None => rawUtil \in 0..100

\* C29 witness: a smoothing update moved an initialised EMA to a value
\* strictly between its old value and 100
EmaSmoothedBelowFull ==
    /\ emaPrev # None
    /\ rawUtil = 100
    /\ emaPrev < cpuEma /\ cpuEma < 100

\* C30: a call of getSysCpuLoad with an undefined raw sample leaves the EMA
\* and the previous EMA as they are and sets the last timestamp to now; the
\* first defined raw sample becomes the EMA as it is; the EMA stays at the
\* negative sentinel until a raw sample is defined
UndefinedSampleOnlyRefreshes ==
    [][emaNow' = emaNow =>
         /\ rawUtil' = None =>
               /\ cpuEma' = cpuEma
               /\ emaPrev' = emaPrev
               /\ emaLastTs' = emaNow
         /\ (rawUtil' # None /\ cpuEma = None) => cpuEma' = rawUtil'
         /\ (cpuEma = None /\ cpuEma' # None) => rawUtil' # None]_vars

\* C30 witness: an initialised EMA, and the latest call, later than the
\* start, had an undefined raw sample
UndefinedSampleAfterFirst ==
    /\ cpuEma \in 1..100
    /\ rawUtil = None
    /\ emaNow > 0
    /\ emaLastTs = emaNow

\* C31: in CoreContainment, with the latest WLT event handled to its end and
\* classified Idle or Btl, an inactive exit timer stays inactive as long as
\* no further WLT event is handled
ExitTimerStaysOffAfterIdle ==
    [][(/\ CCGlobalState = "CoreContainment" /\ CCGlobalState' = "CoreContainment"
        /\ wpc = "idle" /\ wpc' = "idle"
        /\ wltPrev # None /\ IsIdleBtl(WltType(wltPrev))
        /\ ~ccExitDebounceActive)
          => ~ccExitDebounceActive']_vars

\* C32: latestSysCpuLoadCC_ changes only in the step of the WLT handler that
\* took the CoreContainment branch with an old value classified Idle or Btl
\* and a new one classified Sustain or Bursty, and it becomes the EMA as it
\* is before the handler's own getSysCpuLoad()
SnapshotOnlyOnActiveWltInCC ==
    [][latestSysCpuLoadCC' # latestSysCpuLoadCC
          => /\ wpc = "cc_snapshot"
             /\ IsIdleBtl(WltType(PrevInt(wltPrev)))
             /\ IsSustainBursty(WltType(wNew))
             /\ latestSysCpuLoadCC' = cpuEma]_vars

\* C32 witness: the handler has just taken the snapshot on Idle/Btl ->
\* Sustain/Bursty, and its own sample has moved the EMA away from it
SnapshotTakenBeforeSample ==
    /\ wpc = "cc_switch"
    /\ IsIdleBtl(WltType(PrevInt(wltPrev)))
    /\ IsSustainBursty(WltType(wNew))
    /\ latestSysCpuLoadCC = 10
    /\ cpuEma = 30

\* C33: in wlt mode, while no callback handler, no sendHintIfAllowed call
\* and no expiry body is in progress, efficientMode_ is 1 exactly when
\* CCGlobalState_ is CoreContainment
HintCacheTracksContainment ==
    (wpc = "idle" /\ NoHintCallInProgress /\ ~InExpiryBody)
        => (efficientMode = 1 <=> CCGlobalState = "CoreContainment")

\* C34: when the exit-expiry body computes the slope (line 167),
\* latestSysCpuLoadCC_ was written since the state last became
\* CoreContainment
SlopeUsesSnapshotOfEpisode ==
    [][(dpc = "exit_sample" /\ dpc' = "exit_decide") => snapshotFresh]_vars

\* C35: CCGlobalState_ becomes CoreContainment only while the latest WLT
\* value the handler has dealt with is classified Idle or Btl
EntryOnlyAfterIdleWlt ==
    [][(CCGlobalState # "CoreContainment" /\ CCGlobalState' = "CoreContainment")
          => (wltPrev # None /\ IsIdleBtl(WltType(wltPrev)))]_vars

\* C36: the entry timer is not active while CCGlobalState_ is CoreContainment
NoEntryTimerInContainment ==
    ~(ccEntryDebounceActive /\ CCGlobalState = "CoreContainment")

\* C37: the entry-expiry body sets CoreContainment only when getSysCpuLoad()
\* returned a defined reading below the entry threshold
EntryNeedsDefinedLowLoad ==
    [][(/\ dpc = "entry_body"
        /\ CCGlobalState # "CoreContainment" /\ CCGlobalState' = "CoreContainment")
          => (cpuEma' >= 0 /\ cpuEma' < kEntryLoadThreshold)]_vars

\* C38: the sendHintIfAllowed call of a SysLoadMonitor callback, which is
\* made only when the callback found the state Open, ends without a sink
\* call and without a change of efficientMode_
SysLoadCallbackInOpenIsNoOp ==
    [][(hpc["S"] # "idle" /\ hpc'["S"] = "idle")
          => (efficientMode' = efficientMode /\ effSent' = effSent)]_vars

\* C39: with the debounce worker scheduled, an armed entry or exit timer
\* leads to its expiry body unless it is cancelled, and the worker does not
\* stay in its outer wait while a timer is active
ArmedTimerReachesBody ==
    /\ ccEntryDebounceActive ~> (dpc = "entry_body" \/ ccEntryDebounceCancelled)
    /\ ccExitDebounceActive ~> (dpc = "exit_body" \/ ccExitDebounceCancelled)
    /\ (dpc = "wait" /\ (ccEntryDebounceActive \/ ccExitDebounceActive))
          ~> (dpc # "wait" \/ ~(ccEntryDebounceActive \/ ccExitDebounceActive))

\* C39 witness: the entry timer was armed while the worker was running the
\* entry-expiry body with the lock released
ArmedWhileWorkerBusy ==
    /\ dpc = "entry_body"
    /\ ccEntryDebounceActive
    /\ ~ccEntryDebounceCancelled

====
